---- MODULE Spec2Model ----
(***************************************************************************)
(* Model of js/main.js (Ediguide): the startup sequence, the filter/sort   *)
(* pipeline behind applyAll, the debounced filter controls, and the local  *)
(* persistence of ratings and notes with the optional Firebase notes log.  *)
(*                                                                         *)
(* Conventions.  A JavaScript string is a sequence of one-character        *)
(* strings.  A value that may be null / undefined / NaN is a sequence of   *)
(* length 0 (absent) or 1 (present).                                       *)
(***************************************************************************)
EXTENDS Integers, Sequences, FiniteSets, TLC

VARIABLES
  data,         \* state.data
  visible,      \* state.visible
  ctl,          \* values of #search, #country, #rank-min, #rank-max, #sort
  timers,       \* per control: remaining ms of the setTimeout calls pending in its debounce closure
  lsRatings,    \* localStorage[LS_RATINGS]
  lsNotes,      \* localStorage[LS_NOTES]
  table,        \* rendered <tbody> of #rankingTable
  resultsInfo,  \* textContent of #results-info
  notesList,    \* rendered #notesList: where it was read from and what it shows
  pcData,       \* position of the DOMContentLoaded handler around await loadData()
  pcConfig,     \* position of loadOptionalScript('js/firebase-config.js')
  hasConfigFile,\* the deployment ships js/firebase-config.js (with a projectId)
  sdk,          \* the page loads the Firebase SDK (window.firebase.database)
  fbConfig,     \* window.FIREBASE_CONFIG is set
  remote,       \* contents of the remote log 'notes', in push order
  subs,         \* ref.on('value') listeners: how many are live, and how many of them have a snapshot waiting to be delivered
  inflight,     \* ref.push(payload) promises not yet settled
  now,          \* Date.now()
  alertMsg,     \* message of the alert() raised by the last handler, <<>> if none
  err,          \* the last handler ended in an uncaught TypeError
  last,         \* history: name of the last handler that ran
  fetches,      \* history: number of fetches of data/rankings.json issued
  nextSid,      \* history: number of accepted note submissions
  settled,      \* history: submissions whose storage operation has finished
  votes,        \* history: the saveRating calls made, in order
  burst         \* history: per control, the input events of its current burst and how often its timer has run applyAll since the burst began

vars == <<data, visible, ctl, timers, lsRatings, lsNotes, table, resultsInfo,
          notesList, pcData, pcConfig, hasConfigFile, sdk, fbConfig, remote,
          subs, inflight, now, alertMsg, err, last, fetches, nextSid, settled,
          votes, burst>>

---------------------------------------------------------------------------
(* Bounds *)

MaxNotes == 2      \* accepted note submissions per run
MaxVotes == 1      \* star clicks per run (Spec, SpecDebounce)
MaxCasts == 4      \* star clicks per run (SpecRatings)
MaxSubs == 2       \* subscriptions beyond which no further click on #clearNotes is explored
TicksPerWait == 2  \* clock steps in one debounce delay
MaxBurst == 2      \* input events counted in one burst

---------------------------------------------------------------------------
(* Strings *)

Str0 == << >>
UnivA == <<"A", " ", "U">>
UnivB == <<"B", " ", "U">>
Univs == {UnivA, UnivB}
CtryX == <<"X">>
CtryY == <<"Y">>

Absent == << >>
Some(x) == <<x>>

\* String.prototype.toLowerCase on the characters in use
LowerChar(c) ==
  CASE c = "A" -> "a" [] c = "B" -> "b" [] c = "U" -> "u"
    [] c = "X" -> "x" [] c = "Y" -> "y" [] OTHER -> c

toLowerCase(s) == [i \in 1..Len(s) |-> LowerChar(s[i])]

RECURSIVE trimStart(_)
trimStart(s) == IF s # << >> /\ Head(s) = " " THEN trimStart(Tail(s)) ELSE s

RECURSIVE trimEnd(_)
trimEnd(s) ==
  IF s # << >> /\ s[Len(s)] = " " THEN trimEnd(SubSeq(s, 1, Len(s) - 1)) ELSE s

\* String.prototype.trim
trim(s) == trimEnd(trimStart(s))

\* String.prototype.includes
includes(hay, q) ==
  \E i \in 1..(Len(hay) - Len(q) + 1) : SubSeq(hay, i, i + Len(q) - 1) = q

DigitVal(c) ==
  CASE c = "0" -> 0 [] c = "1" -> 1 [] c = "2" -> 2 [] c = "3" -> 3 [] c = "4" -> 4
    [] c = "5" -> 5 [] c = "6" -> 6 [] c = "7" -> 7 [] c = "8" -> 8 [] c = "9" -> 9
    [] OTHER -> -1

RECURSIVE DigitsPrefix(_, _, _)
\* the value of the leading run of decimal digits of s, Absent if there is none
DigitsPrefix(s, acc, seen) ==
  IF s # << >> /\ DigitVal(Head(s)) >= 0
    THEN DigitsPrefix(Tail(s), 10 * acc + DigitVal(Head(s)), TRUE)
    ELSE IF seen THEN Some(acc) ELSE Absent

\* parseInt(s): leading white space, an optional sign, then decimal digits; NaN is Absent
parseInt(s) ==
  LET t == trimStart(s)
      neg == t # << >> /\ Head(t) = "-"
      u == IF t # << >> /\ Head(t) \in {"-", "+"} THEN Tail(t) ELSE t
      m == DigitsPrefix(u, 0, FALSE)
  IN  IF m = Absent THEN Absent ELSE IF neg THEN Some(0 - m[1]) ELSE m

\* x || null for a number x: NaN and 0 are falsy
OrNull(m) == IF m = Absent \/ m = Some(0) THEN Absent ELSE m

\* the collation weight of a character: letters compare without case first
CharWeight(c) ==
  CASE c = " " -> 0
    [] c \in {"a", "A"} -> 1 [] c \in {"b", "B"} -> 2 [] c \in {"u", "U"} -> 3
    [] c \in {"x", "X"} -> 4 [] c \in {"y", "Y"} -> 5 [] OTHER -> 6

RECURSIVE localeCompare(_, _)
\* String.prototype.localeCompare on the strings in use: -1, 0 or 1
localeCompare(a, b) ==
  IF a = << >> /\ b = << >> THEN 0
  ELSE IF a = << >> THEN -1
  ELSE IF b = << >> THEN 1
  ELSE IF CharWeight(Head(a)) < CharWeight(Head(b)) THEN -1
  ELSE IF CharWeight(Head(a)) > CharWeight(Head(b)) THEN 1
  ELSE localeCompare(Tail(a), Tail(b))

---------------------------------------------------------------------------
(* Record Store: loadData's normalisation *)

\* rank: Number(x.rank) || (i+1)
NormRank(x, i) == IF OrNull(x.rank) = Absent THEN i ELSE x.rank[1]

\* university: fmt(x.university || x.name || '')
NormUniv(x) == IF x.university # Str0 THEN x.university ELSE x.name

Normalize(arr) ==
  [i \in 1..Len(arr) |->
     [rank |-> NormRank(arr[i], i),
      university |-> NormUniv(arr[i]),
      country |-> arr[i].country,
      score |-> arr[i].score]]

Raw(r, u, n, c, s) == [rank |-> r, university |-> u, name |-> n, country |-> c, score |-> s]

\* contents of data/rankings.json explored
FileTwo == << Raw(Some(1), UnivA, Str0, CtryX, Some(90)),
              Raw(Some(2), UnivB, Str0, CtryY, Some(80)) >>
FileMixed == << Raw(Some(3), UnivB, Str0, CtryY, Absent),
                Raw(Absent, Str0, UnivA, CtryX, Some(70)),
                Raw(Some(0), UnivA, Str0, CtryY, Some(70)) >>
FileEmpty == << >>
Files == {FileTwo, FileMixed, FileEmpty}

---------------------------------------------------------------------------
(* Query Engine: the filter and the sort of applyAll *)

SortRankAsc == "rank-asc"
SortRankDesc == "rank-desc"
SortScoreAsc == "score-asc"
SortScoreDesc == "score-desc"
SortNameAsc == "name-asc"
SortNameDesc == "name-desc"
SortCountryAsc == "country-asc"

CtlDefault ==
  [search |-> Str0, country |-> Str0, rankMin |-> Str0, rankMax |-> Str0,
   sort |-> SortRankAsc]

\* the callback of state.data.filter
Keep(item, q, country, min, max) ==
  /\ q # Str0 => includes(toLowerCase(item.university \o <<" ">> \o item.country), q)
  /\ country # Str0 => item.country = country
  /\ ~(min # Absent /\ item.rank < min[1])
  /\ ~(max # Absent /\ item.rank > max[1])

RECURSIVE FilterSeq(_, _, _, _, _)
FilterSeq(s, q, country, min, max) ==
  IF s = << >> THEN << >>
  ELSE IF Keep(Head(s), q, country, min, max)
         THEN <<Head(s)>> \o FilterSeq(Tail(s), q, country, min, max)
         ELSE FilterSeq(Tail(s), q, country, min, max)

\* a.score || 0
ScoreOr0(x) == IF x.score = Absent THEN 0 ELSE x.score[1]

\* the comparator of state.visible.sort
Cmp(sortVal, a, b) ==
  CASE sortVal = SortRankAsc -> a.rank - b.rank
    [] sortVal = SortRankDesc -> b.rank - a.rank
    [] sortVal = SortScoreAsc -> ScoreOr0(a) - ScoreOr0(b)
    [] sortVal = SortScoreDesc -> ScoreOr0(b) - ScoreOr0(a)
    [] sortVal = SortNameAsc -> localeCompare(a.university, b.university)
    [] sortVal = SortNameDesc -> localeCompare(b.university, a.university)
    [] sortVal = SortCountryAsc -> localeCompare(a.country, b.country)
    [] OTHER -> a.rank - b.rank

RECURSIVE InsertSorted(_, _, _)
\* x placed after every element it does not precede (keeps the sort stable)
InsertSorted(sortVal, x, s) ==
  IF s = << >> THEN <<x>>
  ELSE IF Cmp(sortVal, x, Head(s)) < 0 THEN <<x>> \o s
  ELSE <<Head(s)>> \o InsertSorted(sortVal, x, Tail(s))

RECURSIVE SortBy(_, _)
\* Array.prototype.sort with the comparator Cmp: a stable sort
SortBy(sortVal, s) ==
  IF s = << >> THEN << >>
  ELSE InsertSorted(sortVal, s[Len(s)], SortBy(sortVal, SubSeq(s, 1, Len(s) - 1)))

\* the value applyAll assigns to state.visible
View(d, c) ==
  LET q == toLowerCase(trim(c.search))
      min == OrNull(parseInt(c.rankMin))
      max == OrNull(parseInt(c.rankMax))
      sortVal == IF c.sort = "" THEN SortRankAsc ELSE c.sort
  IN  SortBy(sortVal, FilterSeq(d, q, c.country, min, max))

---------------------------------------------------------------------------
(* Persistence Layer: the two localStorage entries *)

\* A stored entry is the text under the key, told apart by what JSON.parse
\* makes of it: t = "absent" (no entry), "garbage" (JSON.parse throws),
\* "null", "num", "obj" (an object: v lists its own properties in insertion
\* order) or "arr" (an array: v lists its elements).
Stored(t, v) == [t |-> t, v |-> v]
NoEntry == Stored("absent", << >>)

\* loadRatings: JSON.parse(getItem(LS_RATINGS) || '{}'), {} when it throws
loadRatings(store) ==
  IF store.t \in {"absent", "garbage"} THEN Stored("obj", << >>) ELSE store

\* loadNotes: JSON.parse(getItem(LS_NOTES) || '[]'), [] when it throws
loadNotes(store) ==
  IF store.t \in {"absent", "garbage"} THEN Stored("arr", << >>) ELSE store

\* index of the property univ in the ratings object, 0 if it has none
PropIndex(v, univ) ==
  IF \E i \in 1..Len(v) : v[i].univ = univ
    THEN CHOOSE i \in 1..Len(v) : v[i].univ = univ
    ELSE 0

\* saveRating with the aggregate replaced by the last vote instead of added to
AccumulateOverwrite(v, univ, value) ==
  LET w == IF PropIndex(v, univ) = 0
             THEN Append(v, [univ |-> univ, sum |-> 0, count |-> 0])
             ELSE v
      k == PropIndex(w, univ)
  IN  [w EXCEPT ![k] = [univ |-> univ, sum |-> value, count |-> @.count + 1]]

\* the body of saveRating on a ratings object
Accumulate(v, univ, value) ==
  LET w == IF PropIndex(v, univ) = 0
             THEN Append(v, [univ |-> univ, sum |-> 0, count |-> 0])
             ELSE v
      k == PropIndex(w, univ)
  IN  [w EXCEPT ![k] = [univ |-> univ, sum |-> @.sum + value, count |-> @.count + 1]]

\* saveRating(univ, value): all[univ] on null or on a number ends in a TypeError
\* before saveRatings is reached
saveRating(store, univ, value) ==
  LET all == loadRatings(store)
  IN  IF all.t = "obj"
        THEN [store |-> Stored("obj", Accumulate(all.v, univ, value)), ok |-> TRUE]
        ELSE [store |-> store, ok |-> FALSE]

\* saveNoteLocal up to setItem: arr.unshift on anything but an array is a TypeError
unshiftNote(store, obj) ==
  LET arr == loadNotes(store)
  IN  IF arr.t = "arr"
        THEN [store |-> Stored("arr", <<obj>> \o arr.v), ok |-> TRUE]
        ELSE [store |-> store, ok |-> FALSE]

---------------------------------------------------------------------------
(* Presentation Adapter: rendering *)

InfoInitial == [kind |-> "initial", n |-> 0]
InfoFailed == [kind |-> "failed", n |-> 0]     \* 'Failed to load ranking data.'
InfoCount(n) == [kind |-> "count", n |-> n]    \* 'n result(s)'

\* avg.toFixed(1) of sum / count, in tenths; exact for every count below 20,
\* where each tie of the rounding is a binary fraction
toFixed1(sum, count) == (20 * sum + count) \div (2 * count)

\* the text beside the stars: Absent for '(no ratings)'
avgText(ratings, univ) ==
  IF ratings.t = "obj" /\ PropIndex(ratings.v, univ) # 0
       /\ ratings.v[PropIndex(ratings.v, univ)].sum # 0
    THEN Some(toFixed1(ratings.v[PropIndex(ratings.v, univ)].sum,
                       ratings.v[PropIndex(ratings.v, univ)].count))
    ELSE Absent

\* notes.filter(n => n.univ === item.university).length
noteCount(v, univ) == Cardinality({i \in 1..Len(v) : v[i].univ = univ})

TablePlaceholder == [placeholder |-> TRUE, rows |-> << >>]
TableBlank == [placeholder |-> FALSE, rows |-> << >>]

\* renderTable(list).  With an empty list it shows the placeholder row.
\* Otherwise ratings[item.university] on null, or notes.filter on anything
\* but an array, is a TypeError in the first row: the body stays cleared.
renderTable(list, rs, ns) ==
  IF list = << >> THEN [table |-> TablePlaceholder, ok |-> TRUE]
  ELSE IF loadRatings(rs).t = "null" \/ loadNotes(ns).t # "arr"
    THEN [table |-> TableBlank, ok |-> FALSE]
  ELSE [table |-> [placeholder |-> FALSE,
                   rows |-> [i \in 1..Len(list) |->
                               [univ |-> list[i].university,
                                avg |-> avgText(loadRatings(rs), list[i].university),
                                nCount |-> noteCount(loadNotes(ns).v, list[i].university)]]],
        ok |-> TRUE]

\* applyAll(): filter, sort, renderTable, updateActiveFilters
applyAll(d, c, rs, ns, info) ==
  LET v == View(d, c)
      r == renderTable(v, rs, ns)
  IN  [visible |-> v, table |-> r.table,
       info |-> IF r.ok THEN InfoCount(Len(v)) ELSE info, ok |-> r.ok]

\* the condition of saveNote and renderNotes for using Firebase
RemoteReady(hasSdk, config) == hasSdk /\ config

FeedLimit == 200

\* the first n elements of s
FirstN(s, n) == IF Len(s) <= n THEN s ELSE SubSeq(s, 1, n)

RECURSIVE InsertByTs(_, _)
InsertByTs(x, s) ==
  IF s = << >> THEN <<x>>
  ELSE IF x.ts > Head(s).ts THEN <<x>> \o s
  ELSE <<Head(s)>> \o InsertByTs(x, Tail(s))

RECURSIVE SortTsDesc(_)
\* .sort((a,b) => b.ts - a.ts)
SortTsDesc(s) ==
  IF s = << >> THEN << >>
  ELSE InsertByTs(s[Len(s)], SortTsDesc(SubSeq(s, 1, Len(s) - 1)))

\* what a 'value' snapshot of orderByChild('ts').limitToLast(200) renders:
\* the FeedLimit entries of greatest ts, newest first
Snapshot(log) == FirstN(SortTsDesc(log), FeedLimit)

\* renderNotes() with Firebase: one more ref.on('value') listener
subscribe(ss) == [live |-> ss.live + 1, waiting |-> ss.waiting + 1]

\* renderNotes(): arr.length of null is a TypeError; of a number or an
\* object it is undefined and the feed shows 'No notes yet'
renderNotes(ready, ns, ss, list) ==
  IF ready THEN [subs |-> subscribe(ss), list |-> list, ok |-> TRUE]
  ELSE IF loadNotes(ns).t = "null" THEN [subs |-> ss, list |-> list, ok |-> FALSE]
  ELSE [subs |-> ss,
        list |-> [src |-> "local",
                  items |-> IF loadNotes(ns).t = "arr" THEN loadNotes(ns).v ELSE << >>],
        ok |-> TRUE]

---------------------------------------------------------------------------
(* Debounce *)

Wait == 180

Controls == {"search", "country", "rankMin", "rankMax", "sort"}

\* debounce without its clearTimeout(t): every event leaves one more timer
debounceNoClear(pending) == pending \cup {Wait}

\* the closure debounce(applyAll, 180) returns: clearTimeout(t); t = setTimeout(...)
debounce(pending) == {Wait}

TickMs == Wait \div TicksPerWait

\* the time to the next clock step: never past a timer that is due earlier
Step(ts) ==
  LET all == UNION {ts[c] : c \in Controls}
  IN  IF \E r \in all : r < TickMs
        THEN CHOOSE r \in all : \A q \in all : r <= q
        ELSE TickMs

---------------------------------------------------------------------------
(* Initial states: the DOMContentLoaded handler has run setYear and bindUI, *)
(* has started loadOptionalScript and is suspended in await loadData().     *)

InitWith(ctls, ratingEntries, noteEntries, deployments) ==
  /\ data = << >>
  /\ visible = << >>
  /\ ctl \in ctls
  /\ timers = [c \in Controls |-> {}]
  /\ lsRatings \in ratingEntries
  /\ lsNotes \in noteEntries
  /\ table = TableBlank
  /\ resultsInfo = InfoInitial
  /\ notesList = [src |-> "none", items |-> << >>]
  /\ pcData = "fetching"
  /\ pcConfig = "fetching"
  /\ \E d \in deployments : hasConfigFile = d[1] /\ sdk = d[2]
  /\ fbConfig = FALSE
  /\ remote = << >>
  /\ subs = [live |-> 0, waiting |-> 0]
  /\ inflight = << >>
  /\ now = 1
  /\ alertMsg = ""
  /\ err = FALSE
  /\ last = "init"
  /\ fetches = 1
  /\ nextSid = 0
  /\ settled = {}
  /\ votes = << >>
  /\ burst = [c \in Controls |-> [events |-> 0, fired |-> 0]]

---------------------------------------------------------------------------
(* Startup *)

\* the fetch of loadOptionalScript settles: the <script> is appended, or reject()
ConfigFetched ==
  /\ pcConfig = "fetching"
  /\ pcConfig' = IF hasConfigFile THEN "script" ELSE "done"
  /\ last' = "configFetched"
  /\ alertMsg' = ""
  /\ err' = FALSE
  /\ UNCHANGED <<data, visible, ctl, timers, lsRatings, lsNotes, table, resultsInfo,
                 notesList, pcData, hasConfigFile, sdk, fbConfig, remote, subs,
                 inflight, now, fetches, nextSid, settled, votes, burst>>

\* firebase-config.js runs (it sets window.FIREBASE_CONFIG), then s.onload: initFirebase
ScriptLoaded ==
  /\ pcConfig = "script"
  /\ fbConfig' = TRUE
  /\ pcConfig' = "done"
  /\ last' = "scriptLoaded"
  /\ alertMsg' = ""
  /\ err' = FALSE
  /\ UNCHANGED <<data, visible, ctl, timers, lsRatings, lsNotes, table, resultsInfo,
                 notesList, pcData, hasConfigFile, sdk, remote, subs, inflight, now,
                 fetches, nextSid, settled, votes, burst>>

\* the rest of the DOMContentLoaded handler once loadData has set state.data
\* to d (info is #results-info as loadData left it): initFilters(); applyAll();
\* renderNotes()
Startup(d, info, outcome) ==
  LET a == applyAll(d, ctl, lsRatings, lsNotes, info)
      n == renderNotes(RemoteReady(sdk, fbConfig), lsNotes, subs, notesList)
  IN  /\ pcData = "fetching"
      /\ pcData' = outcome
      /\ data' = d
      /\ visible' = a.visible
      /\ table' = a.table
      /\ resultsInfo' = a.info
      /\ subs' = IF a.ok THEN n.subs ELSE subs
      /\ notesList' = IF a.ok THEN n.list ELSE notesList
      /\ err' = ~(a.ok /\ n.ok)
      /\ last' = "startup"
      /\ alertMsg' = ""
      /\ UNCHANGED <<ctl, timers, lsRatings, lsNotes, pcConfig, hasConfigFile, sdk,
                     fbConfig, remote, inflight, now, fetches, nextSid, settled,
                     votes, burst>>

\* loadData: the fetch and resp.json() succeed with the array file
DataLoaded(file) == Startup(Normalize(file), resultsInfo, "loaded")

\* loadData: the fetch fails, resp.ok is false or resp.json() throws
DataFailed == Startup(data, InfoFailed, "failed")

---------------------------------------------------------------------------
(* Filter controls *)

\* an input event on control c leaving it with value v
InputEvent(c, v) ==
  /\ ctl' = [ctl EXCEPT ![c] = v]
  /\ burst' = [burst EXCEPT ![c] =
                 IF timers[c] = {} THEN [events |-> 1, fired |-> 0]
                 ELSE [@ EXCEPT !.events = IF @ < MaxBurst THEN @ + 1 ELSE @]]
  /\ timers' = [timers EXCEPT ![c] = debounce(@)]
  /\ last' = "input"
  /\ alertMsg' = ""
  /\ err' = FALSE
  /\ UNCHANGED <<data, visible, lsRatings, lsNotes, table, resultsInfo, notesList,
                 pcData, pcConfig, hasConfigFile, sdk, fbConfig, remote, subs,
                 inflight, now, fetches, nextSid, settled, votes>>

\* time passes; a timer that is due fires before more time passes
Tick ==
  /\ \E c \in Controls : timers[c] # {}
  /\ \A c \in Controls : 0 \notin timers[c]
  /\ timers' = [c \in Controls |-> {r - Step(timers) : r \in timers[c]}]
  /\ UNCHANGED <<data, visible, ctl, lsRatings, lsNotes, table, resultsInfo,
                 notesList, pcData, pcConfig, hasConfigFile, sdk, fbConfig, remote,
                 subs, inflight, now, alertMsg, err, last, fetches, nextSid, settled,
                 votes, burst>>

\* a due timer of control c's debounce closure runs applyAll
TimerFire(c) ==
  LET a == applyAll(data, ctl, lsRatings, lsNotes, resultsInfo)
  IN  /\ 0 \in timers[c]
      /\ timers' = [timers EXCEPT ![c] = @ \ {0}]
      /\ burst' = [burst EXCEPT ![c].fired = @ + 1]
      /\ visible' = a.visible
      /\ table' = a.table
      /\ resultsInfo' = a.info
      /\ err' = ~a.ok
      /\ last' = "timer"
      /\ alertMsg' = ""
      /\ UNCHANGED <<data, ctl, lsRatings, lsNotes, notesList, pcData, pcConfig,
                     hasConfigFile, sdk, fbConfig, remote, subs, inflight, now,
                     fetches, nextSid, settled, votes>>

\* click on #resetFilters: resetFilters(); applyAll()
ResetClick ==
  LET a == applyAll(data, CtlDefault, lsRatings, lsNotes, resultsInfo)
  IN  /\ ctl' = CtlDefault
      /\ visible' = a.visible
      /\ table' = a.table
      /\ resultsInfo' = a.info
      /\ err' = ~a.ok
      /\ last' = "reset"
      /\ alertMsg' = ""
      /\ UNCHANGED <<data, timers, lsRatings, lsNotes, notesList, pcData, pcConfig,
                     hasConfigFile, sdk, fbConfig, remote, subs, inflight, now,
                     fetches, nextSid, settled, votes, burst>>

---------------------------------------------------------------------------
(* Ratings *)

StarValues == 1..5

\* click on star val of row i of the rendered table:
\* saveRating(univ, val); applyAll(); alert(...)
StarClick(i, val, cap) ==
  LET univ == table.rows[i].univ
      r == saveRating(lsRatings, univ, val)
      a == applyAll(data, ctl, r.store, lsNotes, resultsInfo)
  IN  /\ Len(votes) < cap
      /\ i \in 1..Len(table.rows)
      /\ votes' = Append(votes, [univ |-> univ, value |-> val])
      /\ lsRatings' = r.store
      /\ visible' = IF r.ok THEN a.visible ELSE visible
      /\ table' = IF r.ok THEN a.table ELSE table
      /\ resultsInfo' = IF r.ok THEN a.info ELSE resultsInfo
      /\ err' = ~(r.ok /\ a.ok)
      /\ alertMsg' = IF r.ok /\ a.ok THEN "Saved rating (stored locally)" ELSE ""
      /\ last' = "star"
      /\ UNCHANGED <<data, ctl, timers, lsNotes, notesList, pcData, pcConfig,
                     hasConfigFile, sdk, fbConfig, remote, subs, inflight, now,
                     fetches, nextSid, settled, burst>>

---------------------------------------------------------------------------
(* Notes *)

\* Number(value) of a #noteRating option; on digit strings it is parseInt
Number(s) == parseInt(s)

\* the fields saveNote reads from the form
noteName(f) == IF trim(f.name) = Str0 THEN <<"a", "n", "o", "n">> ELSE trim(f.name)
noteRating(f) == IF f.rating = Str0 THEN Absent ELSE Number(f.rating)

\* saveNote's test !text && !rating && !univ is false
Accepted(f) ==
  trim(f.text) # Str0 \/ OrNull(noteRating(f)) # Absent \/ trim(f.univ) # Str0

\* {name, univ, text, rating, ts: Date.now()}; sid is a history tag naming the submission
Note(f, ts, sid) ==
  [name |-> noteName(f), univ |-> trim(f.univ), text |-> trim(f.text),
   rating |-> noteRating(f), ts |-> ts, sid |-> sid]

\* saveNoteLocal(obj): unshift, setItem, form reset, renderNotes()
saveNoteLocal(ready, ns, ss, list, obj) ==
  LET u == unshiftNote(ns, obj)
      n == renderNotes(ready, u.store, ss, list)
  IN  IF u.ok THEN [store |-> u.store, subs |-> n.subs, list |-> n.list, ok |-> n.ok]
      ELSE [store |-> ns, subs |-> ss, list |-> list, ok |-> FALSE]

\* submit of #noteForm with the fields f: saveNote()
SubmitNote(f) ==
  LET ready == RemoteReady(sdk, fbConfig)
      obj == Note(f, now, nextSid + 1)
      l == saveNoteLocal(ready, lsNotes, subs, notesList, obj)
  IN  /\ nextSid < MaxNotes
      /\ last' = "submit"
      /\ IF ~Accepted(f)
           THEN /\ alertMsg' = "Add a short note, choose a university, or add a rating."
                /\ err' = FALSE
                /\ UNCHANGED <<lsNotes, subs, notesList, inflight, now, nextSid, settled>>
         ELSE IF ready
           THEN /\ inflight' = Append(inflight, obj)
                /\ now' = now + 1
                /\ nextSid' = nextSid + 1
                /\ alertMsg' = ""
                /\ err' = FALSE
                /\ UNCHANGED <<lsNotes, subs, notesList, settled>>
         ELSE /\ lsNotes' = l.store
              /\ subs' = l.subs
              /\ notesList' = l.list
              /\ err' = ~l.ok
              /\ now' = now + 1
              /\ nextSid' = nextSid + 1
              /\ settled' = settled \cup {nextSid + 1}
              /\ alertMsg' = ""
              /\ UNCHANGED inflight
      /\ UNCHANGED <<data, visible, ctl, timers, lsRatings, table, resultsInfo, pcData,
                     pcConfig, hasConfigFile, sdk, fbConfig, remote, fetches, votes,
                     burst>>

RemoveAt(s, i) == SubSeq(s, 1, i - 1) \o SubSeq(s, i + 1, Len(s))

\* ref.push(payload) resolves: the log holds the payload; then form reset,
\* renderNotes(), alert('Saved note to Firebase.')
PushOk(i) ==
  LET n == renderNotes(RemoteReady(sdk, fbConfig), lsNotes,
                       [subs EXCEPT !.waiting = subs.live], notesList)
  IN  /\ i \in 1..Len(inflight)
      /\ inflight' = RemoveAt(inflight, i)
      /\ remote' = Append(remote, inflight[i])
      /\ subs' = n.subs
      /\ notesList' = n.list
      /\ settled' = settled \cup {inflight[i].sid}
      /\ alertMsg' = "Saved note to Firebase."
      /\ err' = ~n.ok
      /\ last' = "pushOk"
      /\ UNCHANGED <<data, visible, ctl, timers, lsRatings, lsNotes, table, resultsInfo,
                     pcData, pcConfig, hasConfigFile, sdk, fbConfig, now, fetches,
                     nextSid, votes, burst>>

\* ref.push(payload) rejects: alert('Failed to save to Firebase. Saved locally
\* instead.'); saveNoteLocal({name, univ, text, rating, ts: Date.now()})
PushFail(i) ==
  LET obj == [inflight[i] EXCEPT !.ts = now]
      l == saveNoteLocal(RemoteReady(sdk, fbConfig), lsNotes, subs, notesList, obj)
  IN  /\ i \in 1..Len(inflight)
      /\ inflight' = RemoveAt(inflight, i)
      /\ lsNotes' = l.store
      /\ subs' = l.subs
      /\ notesList' = l.list
      /\ now' = now + 1
      /\ settled' = settled \cup {inflight[i].sid}
      /\ alertMsg' = "Failed to save to Firebase. Saved locally instead."
      /\ err' = ~l.ok
      /\ last' = "pushFail"
      /\ UNCHANGED <<data, visible, ctl, timers, lsRatings, table, resultsInfo, pcData,
                     pcConfig, hasConfigFile, sdk, fbConfig, remote, fetches, nextSid,
                     votes, burst>>

\* the callback of ref.on('value') of one listener: renderNotesList(arr)
SnapshotDelivered ==
  /\ subs.waiting > 0
  /\ subs' = [subs EXCEPT !.waiting = @ - 1]
  /\ notesList' = [src |-> "remote", items |-> Snapshot(remote)]
  /\ last' = "snapshot"
  /\ alertMsg' = ""
  /\ err' = FALSE
  /\ UNCHANGED <<data, visible, ctl, timers, lsRatings, lsNotes, table, resultsInfo,
                 pcData, pcConfig, hasConfigFile, sdk, fbConfig, remote, inflight, now,
                 fetches, nextSid, settled, votes, burst>>

\* the handler with its removeItem calls left out
clearNothing(entry) == entry

\* the removals of the #clearNotes handler once confirm() returned true
clearLocal(entry) == NoEntry

\* click on #clearNotes; answer is what confirm() returns
ClearClick(answer) ==
  LET rs == clearLocal(lsRatings)
      ns == clearLocal(lsNotes)
      n == renderNotes(RemoteReady(sdk, fbConfig), ns, subs, notesList)
      a == applyAll(data, ctl, rs, ns, resultsInfo)
  IN  /\ subs.live < MaxSubs
      /\ last' = IF answer THEN "clearConfirmed" ELSE "clearDeclined"
      /\ alertMsg' = ""
      /\ err' = FALSE
      /\ IF answer
           THEN /\ lsRatings' = rs
                /\ lsNotes' = ns
                /\ subs' = n.subs
                /\ notesList' = n.list
                /\ visible' = a.visible
                /\ table' = a.table
                /\ resultsInfo' = a.info
           ELSE UNCHANGED <<lsRatings, lsNotes, subs, notesList, visible, table,
                            resultsInfo>>
      /\ UNCHANGED <<data, ctl, timers, pcData, pcConfig, hasConfigFile, sdk, fbConfig,
                     remote, inflight, now, fetches, nextSid, settled, votes, burst>>

---------------------------------------------------------------------------
(* Inputs explored *)

SearchInputs == {Str0, <<"u">>, <<" ", "B", " ">>}
CountryInputs == {Str0, CtryX, CtryY}
RankInputs == {Str0, <<"0">>, <<"1">>, <<"2">>, <<"3">>, <<"-", "1">>}
SortInputs == {"", SortRankAsc, SortRankDesc, SortScoreAsc, SortScoreDesc,
               SortNameAsc, SortNameDesc, SortCountryAsc}

AllCtls ==
  [search : SearchInputs, country : CountryInputs, rankMin : RankInputs,
   rankMax : RankInputs, sort : SortInputs]

\* the input events explored with the clock running
BurstInputs ==
  {<<"search", Str0>>, <<"search", <<"b">>>>,
   <<"rankMin", Str0>>, <<"rankMin", <<"2">>>>}

Form(n, u, t, r) == [name |-> n, univ |-> u, text |-> t, rating |-> r]
NoteForms ==
  {Form(Str0, UnivA, <<"h", "i">>, <<"3">>),
   Form(<<"Z">>, Str0, <<" ">>, Str0)}

Garbage == Stored("garbage", << >>)
JsonNull == Stored("null", << >>)
JsonNum == Stored("num", << >>)
JsonObj == Stored("obj", << >>)

RatingEntries == {NoEntry, Garbage, JsonNull, JsonNum}
NoteEntries == {NoEntry, Garbage, JsonNull, JsonNum, JsonObj}
Local == <<FALSE, FALSE>>
Deployments == {Local, <<TRUE, TRUE>>, <<TRUE, FALSE>>}

---------------------------------------------------------------------------
(* Specifications *)

\* the whole page, from any stored entries and any deployment
Init == InitWith({CtlDefault}, RatingEntries, NoteEntries, Deployments)

Next ==
  \/ ConfigFetched
  \/ ScriptLoaded
  \/ DataLoaded(FileTwo)
  \/ DataFailed
  \/ \E i \in DOMAIN table.rows : StarClick(i, 4, MaxVotes)
  \/ \E f \in NoteForms : SubmitNote(f)
  \/ \E i \in DOMAIN inflight : PushOk(i)
  \/ \E i \in DOMAIN inflight : PushFail(i)
  \/ SnapshotDelivered
  \/ \E answer \in BOOLEAN : ClearClick(answer)

Spec == Init /\ [][Next]_vars

\* applyAll on every record list and every setting of the controls
InitApply == InitWith(AllCtls, {NoEntry}, {NoEntry}, {Local})

NextApply ==
  \/ \E file \in Files : DataLoaded(file)
  \/ DataFailed

SpecApply == InitApply /\ [][NextApply]_vars

\* the filter controls under the clock, from any stored entries
InitDebounce == InitWith({CtlDefault}, RatingEntries, NoteEntries, {Local})

NextDebounce ==
  \/ DataLoaded(FileTwo)
  \/ DataFailed
  \/ \E e \in BurstInputs : InputEvent(e[1], e[2])
  \/ Tick
  \/ \E c \in Controls : TimerFire(c)
  \/ ResetClick
  \/ \E i \in DOMAIN table.rows : StarClick(i, 4, MaxVotes)

SpecDebounce == InitDebounce /\ [][NextDebounce]_vars

\* star clicks on a page with no stored ratings, from any stored notes entry
InitRatings == InitWith({CtlDefault}, {NoEntry}, NoteEntries, {Local})

NextRatings ==
  \/ DataLoaded(FileTwo)
  \/ \E i \in DOMAIN table.rows, val \in StarValues : StarClick(i, val, MaxCasts)

SpecRatings == InitRatings /\ [][NextRatings]_vars

---------------------------------------------------------------------------
(* Properties *)

\* copies of submission sid in the local notes sequence and in the remote log
LocalCopies(sid) ==
  IF lsNotes.t = "arr"
    THEN Cardinality({i \in 1..Len(lsNotes.v) : lsNotes.v[i].sid = sid})
    ELSE 0
RemoteCopies(sid) == Cardinality({i \in 1..Len(remote) : remote[i].sid = sid})

\* C1: every accepted note submission ends up stored exactly once.  In the
\* step in which its storage operation finishes the note is in exactly one of
\* the local sequence and the remote log; a finished remote append leaves the
\* local entry unchanged; a failed one prepends the note locally and raises
\* the failure alert; a submission made while Firebase is in use changes no
\* local entry before the remote operation has settled.
C1_StoredExactlyOnce ==
  [][/\ \A s \in settled' \ settled :
          /\ LocalCopies(s)' + RemoteCopies(s)' = 1
          /\ last' = "submit" => LocalCopies(s)' = 1 /\ lsNotes'.v[1].sid = s
          /\ last' = "pushOk" => RemoteCopies(s)' = 1 /\ lsNotes' = lsNotes
          /\ last' = "pushFail" =>
               /\ LocalCopies(s)' = 1 /\ lsNotes'.v[1].sid = s
               /\ alertMsg' = "Failed to save to Firebase. Saved locally instead."
     /\ Len(inflight') > Len(inflight) => lsNotes' = lsNotes /\ remote' = remote
    ]_vars

\* C2: whatever is stored under the ratings key and the notes key, no
\* operation built on loadRatings and loadNotes raises an error.
C2_FailSoft == ~err

\* C3: when the startup sequence has finished after a failed fetch,
\* state.data is empty, no second fetch was issued and #results-info shows
\* the load-failure message.
C3_LoadFailureShown ==
  pcData = "failed" =>
    data = << >> /\ fetches = 1 /\ resultsInfo = InfoFailed

\* C4: when #rank-min and #rank-max hold integers R1 <= R2, every entry of
\* the view applyAll produced has R1 <= rank <= R2.
C4_RankBounds ==
  (pcData = "loaded" /\ parseInt(ctl.rankMin) # Absent /\ parseInt(ctl.rankMax) # Absent
     /\ parseInt(ctl.rankMin)[1] <= parseInt(ctl.rankMax)[1]) =>
    \A i \in 1..Len(visible) :
      /\ parseInt(ctl.rankMin)[1] <= visible[i].rank
      /\ visible[i].rank <= parseInt(ctl.rankMax)[1]

RECURSIVE SumCast(_, _)
\* the sum of the votes cast for univ in the sequence vs
SumCast(vs, univ) ==
  IF vs = << >> THEN 0
  ELSE (IF Head(vs).univ = univ THEN Head(vs).value ELSE 0) + SumCast(Tail(vs), univ)

CountCast(vs, univ) == Cardinality({i \in 1..Len(vs) : vs[i].univ = univ})

\* C5: from an empty ratings store, after any sequence of saveRating calls the
\* stored aggregate of each university is {sum of its votes, number of its
\* votes}, whatever the order and whatever votes for other universities lie
\* between them; a university with no vote has no aggregate.
C5_AggregateIsSumAndCount ==
  \A u \in Univs :
    LET all == loadRatings(lsRatings)
        k == PropIndex(all.v, u)
    IN  /\ all.t = "obj"
        /\ IF CountCast(votes, u) = 0 THEN k = 0
           ELSE /\ k # 0
                /\ all.v[k].sum = SumCast(votes, u)
                /\ all.v[k].count = CountCast(votes, u)

\* votes 3 and 5, a vote for another university, then 4: {sum: 12, count: 3}
C5_Witness ==
  /\ Len(votes) = 4
  /\ <<votes[1].value, votes[2].value, votes[4].value>> = <<3, 5, 4>>
  /\ votes[1].univ = UnivA /\ votes[2].univ = UnivA /\ votes[4].univ = UnivA
  /\ votes[3].univ = UnivB
  /\ lsRatings.t = "obj"
  /\ \E k \in 1..Len(lsRatings.v) :
       lsRatings.v[k] = [univ |-> UnivA, sum |-> 12, count |-> 3]

\* C6: a declined click on #clearNotes leaves the ratings entry and the notes
\* entry unchanged, a confirmed one removes both, and neither changes the
\* remote log.
C6_ClearGated ==
  [][/\ last' = "clearDeclined" =>
          lsRatings' = lsRatings /\ lsNotes' = lsNotes /\ remote' = remote
     /\ last' = "clearConfirmed" =>
          lsRatings' = NoEntry /\ lsNotes' = NoEntry /\ remote' = remote
    ]_vars

\* a confirmed clear has removed a vote and a locally stored note while the
\* remote log holds a note
C6_Witness ==
  /\ last = "clearConfirmed"
  /\ votes # << >>
  /\ lsRatings = NoEntry /\ lsNotes = NoEntry
  /\ remote # << >>
  /\ \E s \in settled : RemoteCopies(s) = 0

\* each rendered row shows the stored average and the stored number of notes
TableAgrees ==
  \A i \in 1..Len(table.rows) :
    LET u == table.rows[i].univ
        k == IF lsRatings.t = "obj" THEN PropIndex(lsRatings.v, u) ELSE 0
    IN  /\ table.rows[i].avg =
             IF k = 0 THEN Absent
             ELSE Some(toFixed1(lsRatings.v[k].sum, lsRatings.v[k].count))
        /\ table.rows[i].nCount =
             IF lsNotes.t = "arr" THEN noteCount(lsNotes.v, u) ELSE 0

\* C7: after a completed star click, a note submission stored locally or a
\* confirmed clear, the rendered table agrees with the stored state.
C7_ViewRederived ==
  (~err /\ \/ last \in {"star", "clearConfirmed"}
           \/ /\ last \in {"submit", "pushFail"}
              /\ lsNotes.t = "arr" /\ lsNotes.v # << >>
              /\ lsNotes.v[1].ts = now - 1)
    => TableAgrees

\* C8: with a remote log configured, once the configuration load and the
\* startup sequence have both finished, the feed is not the local sequence
\* with no subscription in existence.
C8_FeedSubscribed ==
  (hasConfigFile /\ sdk /\ pcConfig = "done" /\ pcData # "fetching") =>
    ~(notesList.src = "local" /\ subs.live = 0)

\* C9: while a burst of input events on a control is open (its timer is
\* pending) the control's debounce has not run applyAll, and once the burst
\* is over it has run applyAll exactly once; and whenever no timer is pending
\* state.visible is the filter-and-sort of state.data under the controls'
\* current values.
C9_Debounce ==
  /\ \A c \in Controls :
       burst[c].events > 0 =>
         /\ timers[c] # {} => burst[c].fired = 0
         /\ timers[c] = {} => burst[c].fired = 1
  /\ (\A c \in Controls : timers[c] = {}) => visible = View(data, ctl)

\* a burst of at least two events has ended and its one applyAll filtered the list
C9_Witness ==
  /\ \A c \in Controls : timers[c] = {}
  /\ burst["rankMin"].events >= 2 /\ burst["rankMin"].fired = 1
  /\ ctl.rankMin = <<"2">>
  /\ Len(data) = 2 /\ Len(visible) = 1
  /\ last = "timer"

\* C10: at most one live subscription to the remote log exists at any time.
C10_OneSubscription == subs.live <= 1

====
